---- MODULE Spec2Model ----
(***************************************************************************)
(* A model of the go-restli code generator's back end:                     *)
(*   - Identifier.PackagePath / FqcpToPackagePath (identifier.go)          *)
(*   - the type registry's cycle marking (described in README and spec)    *)
(*   - DeduplicateFiles (codefile.go)                                      *)
(*   - ResourceParser.parse and Collection.generateGet                     *)
(* Strings are sequences of one-character strings, so that concatenation,  *)
(* splitting, escaping and byte-wise comparison are computed, not assumed. *)
(***************************************************************************)
EXTENDS Integers, Sequences, FiniteSets, TLC

VARIABLES
    \* ---- package paths (identifier.go) ----
    PackagePrefix,   \* codefile.go:45, the configured prefix
    cyclic,          \* the registry's set of identities marked cyclic
    ident,           \* the Identifier under study
    calls,           \* the PackagePath calls made so far, oldest first
    \* ---- type registry walk ----
    deps,            \* the type graph: identity -> identities it references
    resolved,        \* the memo table: identities whose resolution was entered
    stack,           \* the active resolution stack (bottom first)
    pending,         \* per stack frame: the references not yet followed
    lastRead,        \* the PackagePath value a consumer read last
    \* ---- DeduplicateFiles ----
    files,           \* the input slice
    outcome,         \* "called", "fatal" (log.Fatalf) or "returned"
    fatalMsg,        \* what log.Fatalf was given
    uniqueCodeFiles, \* the returned slice
    \* ---- ResourceParser / generateGet ----
    tree,            \* the resource schemas: [kind, parent], each by schema
    frames,          \* the ResourceParsers whose parse() is pending, next last
    emitted,         \* the Resources parse() has returned so far
    logged,          \* the namespace chains Utils.log reported as skipped
    lastGet,         \* the get request builder generated last
    \* ---- PrimitiveType.UnmarshalJSON ----
    prim,            \* the PrimitiveType the decoder writes into (*p)
    primCall,        \* the UnmarshalJSON call made last: input, target, error
    \* ---- ReadJSONFromFile ----
    data,            \* the bytes the parse loop holds
    readState,       \* "start", "loop", "panic", "ok" or the error returned
    cut              \* the comment removal made last: data before, offset, length

pathVars == <<PackagePrefix, cyclic, ident, calls>>
regVars == <<deps, resolved, stack, pending, lastRead>>
dedupVars == <<files, outcome, fatalMsg, uniqueCodeFiles>>
resVars == <<tree, frames, emitted, logged, lastGet>>
primVars == <<prim, primCall>>
jsonVars == <<data, readState, cut>>
vars == <<pathVars, regVars, dedupVars, resVars, primVars, jsonVars>>

(***************************************************************************)
(* Strings                                                                 *)
(***************************************************************************)
Internal == <<"i", "n", "t", "e", "r", "n", "a", "l">>
UnderscoreInternal == <<"_">> \o Internal
ConflictResolution ==
    <<"c", "o", "n", "f", "l", "i", "c", "t",
      "R", "e", "s", "o", "l", "u", "t", "i", "o", "n">>

\* s[from..] (1-based), the Go slice s[from-1:]
Drop(s, from) == SubSeq(s, from, Len(s))

\* strings.HasPrefix(s[i-1:], pat)
HasPrefixAt(s, i, pat) ==
    /\ i + Len(pat) - 1 <= Len(s)
    /\ SubSeq(s, i, i + Len(pat) - 1) = pat

RECURSIVE Split(_, _)
\* strings.Split(s, sep) for a one-character separator
Split(s, sep) ==
    IF \A i \in 1..Len(s) : s[i] # sep
    THEN <<s>>
    ELSE LET i == CHOOSE k \in 1..Len(s) :
                      s[k] = sep /\ \A j \in 1..(k - 1) : s[j] # sep
         IN  <<SubSeq(s, 1, i - 1)>> \o Split(Drop(s, i + 1), sep)

RECURSIVE JoinSegs(_, _)
\* strings.Join(segs, sep)
JoinSegs(segs, sep) ==
    IF Len(segs) = 0 THEN <<>>
    ELSE IF Len(segs) = 1 THEN segs[1]
    ELSE segs[1] \o sep \o JoinSegs(Tail(segs), sep)

IsSep(c) == c = "/" \/ c = "."

RECURSIVE EscapeFrom(_, _)
\* namespaceEscape.ReplaceAllString(s, "${1}_internal${2}") scanning from i:
\* the leftmost match of ([/.])_?internal([/.]?) is rewritten and the scan
\* resumes after the end of the match (matches do not overlap).
EscapeFrom(s, i) ==
    IF i > Len(s) THEN <<>>
    ELSE LET body == IF HasPrefixAt(s, i + 1, UnderscoreInternal)
                     THEN Len(UnderscoreInternal)
                     ELSE IF HasPrefixAt(s, i + 1, Internal)
                          THEN Len(Internal)
                          ELSE 0
             after == i + 1 + body
             trail == IF after <= Len(s) /\ IsSep(s[after]) THEN 1 ELSE 0
         IN  IF IsSep(s[i]) /\ body > 0
             THEN <<s[i]>> \o UnderscoreInternal
                      \o SubSeq(s, after, after + trail - 1)
                      \o EscapeFrom(s, after + trail)
             ELSE <<s[i]>> \o EscapeFrom(s, i + 1)

NamespaceEscape(s) == EscapeFrom(s, 1)

\* strings.Replace(s, ".", "/", -1)
DotsToSlashes(s) == [i \in 1..Len(s) |-> IF s[i] = "." THEN "/" ELSE s[i]]

RECURSIVE CleanSegs(_, _, _)
\* the segment loop of path/filepath.Clean: empty and "." segments vanish,
\* ".." removes the segment before it (or stays, on a relative path)
CleanSegs(segs, out, rooted) ==
    IF Len(segs) = 0 THEN out
    ELSE LET s == Head(segs)
         IN  IF s = <<>> \/ s = <<".">>
             THEN CleanSegs(Tail(segs), out, rooted)
             ELSE IF s = <<".", ".">>
                  THEN IF Len(out) > 0 /\ out[Len(out)] # <<".", ".">>
                       THEN CleanSegs(Tail(segs), SubSeq(out, 1, Len(out) - 1), rooted)
                       ELSE IF rooted
                            THEN CleanSegs(Tail(segs), out, rooted)
                            ELSE CleanSegs(Tail(segs), Append(out, s), rooted)
                  ELSE CleanSegs(Tail(segs), Append(out, s), rooted)

\* path/filepath.Clean
Clean(p) ==
    IF p = <<>> THEN <<".">>
    ELSE LET rooted == p[1] = "/"
             body == JoinSegs(CleanSegs(Split(p, "/"), <<>>, rooted), <<"/">>)
         IN  IF rooted THEN <<"/">> \o body
             ELSE IF body = <<>> THEN <<".">> ELSE body

\* path/filepath.Join(a, b): empty elements are ignored, the rest joined
\* with "/" and cleaned
FilepathJoin(a, b) ==
    IF a = <<>> /\ b = <<>> THEN <<>>
    ELSE IF a = <<>> THEN Clean(b)
    ELSE IF b = <<>> THEN Clean(a)
    ELSE Clean(a \o <<"/">> \o b)

(***************************************************************************)
(* identifier.go                                                           *)
(***************************************************************************)
\* a mutant: the prefix is only prepended to namespace-derived paths
FqcpToPackagePathPrefixOnlyDotted(fqcp) ==
    LET p == DotsToSlashes(NamespaceEscape(fqcp))
    IN  IF PackagePrefix # <<>> /\ fqcp # ConflictResolution
        THEN FilepathJoin(PackagePrefix, p)
        ELSE p

FqcpToPackagePath(fqcp) ==
    LET p == DotsToSlashes(NamespaceEscape(fqcp))
    IN  IF PackagePrefix # <<>> THEN FilepathJoin(PackagePrefix, p) ELSE p

\* TypeRegistry.IsCyclic
IsCyclic(i) == i \in cyclic

Panic == [panicked |-> TRUE, path |-> <<>>]
Returns(p) == [panicked |-> FALSE, path |-> p]

\* a mutant: the namespace check is made only on the non-cyclic branch
PackagePathChecksAfterCyclic(i) ==
    IF IsCyclic(i) THEN Returns(FqcpToPackagePath(ConflictResolution))
    ELSE IF i.Namespace = <<>> \/ i.Name = <<>> THEN Panic
    ELSE Returns(FqcpToPackagePath(i.Namespace))

\* a mutant: the path is derived from the namespace alone, as if computed
\* before the registry had marked anything
PackagePathIgnoresCyclic(i) ==
    IF i.Namespace = <<>> \/ i.Name = <<>> THEN Panic
    ELSE Returns(FqcpToPackagePath(i.Namespace))

PackagePath(i) ==
    IF i.Namespace = <<>> THEN Panic
    ELSE IF i.Name = <<>> THEN Panic
    ELSE Returns(FqcpToPackagePath(IF IsCyclic(i) THEN ConflictResolution
                                   ELSE i.Namespace))

(***************************************************************************)
(* Idle values: each specification below drives one group of variables and *)
(* pins the others.                                                        *)
(***************************************************************************)
NoIdent == [Name |-> <<>>, Namespace |-> <<>>]

PathIdle == ident = NoIdent /\ calls = <<>>
RegIdle ==
    /\ deps = <<>> /\ resolved = {} /\ stack = <<>>
    /\ pending = <<>> /\ lastRead = <<>>
DedupIdle ==
    /\ files = <<>> /\ outcome = "idle"
    /\ fatalMsg = <<>> /\ uniqueCodeFiles = <<>>
ResIdle ==
    /\ tree = <<>> /\ frames = <<>> /\ emitted = {} /\ logged = {}
    /\ lastGet = <<>>
PrimIdle == prim = <<>> /\ primCall = <<>>
JsonIdle == data = <<>> /\ readState = "idle" /\ cut = <<>>

(***************************************************************************)
(* SpecPath: PackagePath called on one identity while the registry marks   *)
(* identities cyclic.                                                      *)
(***************************************************************************)
MaxSegs == 3
MaxCalls == 2

Segments == {<<"a">>, Internal, UnderscoreInternal, Internal \o <<"s">>}

RECURSIVE NamespacesOfLen(_)
\* the namespaces made of exactly n segments joined by "."
NamespacesOfLen(n) ==
    IF n = 1 THEN Segments
    ELSE {s \o <<".">> \o t : s \in Segments, t \in NamespacesOfLen(n - 1)}

Namespaces == {<<>>} \cup UNION {NamespacesOfLen(n) : n \in 1..MaxSegs}
Names == {<<>>, <<"T">>}
Identifiers == [Name : Names, Namespace : Namespaces]
Prefixes == {<<>>, <<"g">>, <<"g", "/">>, <<"p", "/", "q">>}
OtherIdent == [Name |-> <<"U">>, Namespace |-> <<"b">>]

PathInit ==
    /\ PackagePrefix \in Prefixes
    /\ ident \in Identifiers
    /\ cyclic = {}
    /\ calls = <<>>
    /\ RegIdle /\ DedupIdle /\ ResIdle
    /\ PrimIdle /\ JsonIdle

\* the registry marks an identity cyclic (marks are only ever added)
MarkCyclic(i) ==
    /\ i \notin cyclic
    /\ cyclic' = cyclic \cup {i}
    /\ UNCHANGED <<PackagePrefix, ident, calls, regVars, dedupVars, resVars,
                   primVars, jsonVars>>

\* a consumer calls ident.PackagePath()
CallPackagePath ==
    /\ Len(calls) < MaxCalls
    /\ calls' = Append(calls, [id |-> ident, cyc |-> IsCyclic(ident),
                               ret |-> PackagePath(ident)])
    /\ UNCHANGED <<PackagePrefix, ident, cyclic, regVars, dedupVars, resVars,
                   primVars, jsonVars>>

PathNext ==
    \/ \E i \in {ident, OtherIdent} : MarkCyclic(i)
    \/ CallPackagePath

SpecPath == PathInit /\ [][PathNext]_vars

NonEmptySegs(segs) == SelectSeq(segs, LAMBDA s : s # <<>>)
PrefixSegs == NonEmptySegs(Split(PackagePrefix, "/"))

\* C6: for an identity with non-empty name and namespace PackagePath returns
\* (never panics); when the identity is cyclic the path is the prefix's
\* segments followed by the single segment conflictResolution, otherwise it
\* is the prefix's segments followed by one path segment per '.'-separated
\* namespace segment, in order (the segment itself, or the segment with the
\* '_' escape); and two calls on the same identity with the same cyclic
\* membership return the same path.
C6_PackagePathFunction ==
    \A k \in 1..Len(calls) :
        LET c == calls[k]
            ns == Split(c.id.Namespace, ".")
            ps == Split(c.ret.path, "/")
            np == Len(PrefixSegs)
        IN  (c.id.Name # <<>> /\ c.id.Namespace # <<>>) =>
              /\ ~c.ret.panicked
              /\ c.cyc => c.ret.path =
                            JoinSegs(PrefixSegs \o <<ConflictResolution>>, <<"/">>)
              /\ ~c.cyc =>
                   /\ Len(ps) = np + Len(ns)
                   /\ SubSeq(ps, 1, np) = PrefixSegs
                   /\ \A j \in 1..Len(ns) :
                        ps[np + j] \in {ns[j], <<"_">> \o ns[j]}
              /\ \A j \in 1..Len(calls) :
                   calls[j].cyc = c.cyc => calls[j].ret = c.ret

C6_Witness ==
    /\ Len(calls) = 2
    /\ ~calls[1].cyc /\ calls[2].cyc
    /\ PackagePrefix = <<"p", "/", "q">>
    /\ ident = [Name |-> <<"T">>, Namespace |-> <<"a", ".">> \o Internal]
    /\ calls[1].ret.path = <<"p", "/", "q", "/", "a", "/">> \o UnderscoreInternal
    /\ calls[2].ret.path = <<"p", "/", "q", "/">> \o ConflictResolution

\* C10: PackagePath on an identity whose Namespace is empty panics and
\* returns no path, whether or not the identity is in the cyclic set.
C10_EmptyNamespacePanics ==
    \A k \in 1..Len(calls) :
        calls[k].id.Namespace = <<>> =>
            calls[k].ret.panicked /\ calls[k].ret.path = <<>>

C10_Witness ==
    /\ Len(calls) = 2
    /\ ident = [Name |-> <<"T">>, Namespace |-> <<>>]
    /\ PackagePrefix = <<"g">>
    /\ ~calls[1].cyc /\ calls[2].cyc
    /\ calls[1].ret.panicked /\ calls[2].ret.panicked

(***************************************************************************)
(* SpecRegistry: the type registry resolves every identity of a type graph *)
(* depth first, memoized, marking cycles from the active stack, while a    *)
(* consumer reads package paths.                                           *)
(***************************************************************************)
NumIds == 3
MaxEdges == 4
MaxReadEdges == 2

Ids == 1..NumIds
Letters == <<"a", "b", "c", "d", "e", "f">>
\* identity n lives in its own namespace
Ident(n) == [Name |-> <<"T">>, Namespace |-> <<"n", ".", Letters[n]>>]

EdgeCount(g) == Cardinality({e \in Ids \X Ids : e[2] \in g[e[1]]})
GraphsUpTo(n) == {g \in [Ids -> SUBSET Ids] : EdgeCount(g) <= n}

RegInitWith(graphs) ==
    /\ deps \in graphs
    /\ resolved = {}
    /\ stack = <<>>
    /\ pending = <<>>
    /\ lastRead = <<>>
    /\ cyclic = {}
    /\ PackagePrefix = <<"g">>
    /\ PathIdle /\ DedupIdle /\ ResIdle
    /\ PrimIdle /\ JsonIdle

RegInit == RegInitWith(GraphsUpTo(MaxEdges))
ReadInit == RegInitWith(GraphsUpTo(MaxReadEdges))

OnStack(b) == \E k \in 1..Len(stack) : stack[k] = b
StackPos(b) == CHOOSE k \in 1..Len(stack) : stack[k] = b
\* every identity has been resolved and no resolution is active
WalkDone == resolved = Ids /\ stack = <<>>

\* the identities marked when b is found on the active stack: every one
\* from b to the top, inclusive
CycleMembers(b) == {Ident(stack[k]) : k \in StackPos(b)..Len(stack)}

\* the walk resolves root r; resolving a memoized identity again changes
\* nothing, so only unresolved roots take a step
ResolveRoot(r) ==
    /\ stack = <<>>
    /\ r \notin resolved
    /\ resolved' = resolved \cup {r}
    /\ stack' = <<r>>
    /\ pending' = <<deps[r]>>
    /\ UNCHANGED <<deps, lastRead, cyclic, PackagePrefix, ident, calls,
                   dedupVars, resVars,
                   primVars, jsonVars>>

\* resolving the top of the stack requires resolving b
Require(b) ==
    /\ stack # <<>>
    /\ b \in pending[Len(stack)]
    /\ LET rest == [pending EXCEPT ![Len(stack)] = @ \ {b}]
       IN  IF OnStack(b)
           THEN /\ cyclic' = cyclic \cup CycleMembers(b)
                /\ pending' = rest
                /\ UNCHANGED <<resolved, stack>>
           ELSE IF b \in resolved
                THEN /\ pending' = rest
                     /\ UNCHANGED <<resolved, stack, cyclic>>
                ELSE /\ resolved' = resolved \cup {b}
                     /\ stack' = Append(stack, b)
                     /\ pending' = Append(rest, deps[b])
                     /\ UNCHANGED cyclic
    /\ UNCHANGED <<deps, lastRead, PackagePrefix, ident, calls,
                   dedupVars, resVars,
                   primVars, jsonVars>>

\* the top of the stack has followed all its references
Resolved ==
    /\ stack # <<>>
    /\ pending[Len(stack)] = {}
    /\ stack' = SubSeq(stack, 1, Len(stack) - 1)
    /\ pending' = SubSeq(pending, 1, Len(pending) - 1)
    /\ UNCHANGED <<deps, resolved, lastRead, cyclic, PackagePrefix,
                   ident, calls, dedupVars, resVars,
                   primVars, jsonVars>>

\* a consumer reads the package path of identity n
ReadPackagePath(n) ==
    /\ lastRead' = <<[id |-> n, settled |-> WalkDone,
                      cyc |-> IsCyclic(Ident(n)),
                      ret |-> PackagePath(Ident(n))]>>
    /\ UNCHANGED <<deps, resolved, stack, pending, cyclic,
                   PackagePrefix, ident, calls, dedupVars, resVars,
                   primVars, jsonVars>>

RegNext ==
    \/ \E r \in Ids : ResolveRoot(r)
    \/ \E b \in Ids : Require(b)
    \/ Resolved

\* the walk alone
SpecRegistry == RegInit /\ [][RegNext]_vars

ReadNext ==
    \/ \E r \in Ids : ResolveRoot(r)
    \/ \E b \in Ids : Require(b)
    \/ Resolved
    \/ \E n \in Ids : ReadPackagePath(n)

\* the walk with a consumer reading package paths at any moment
SpecReads == ReadInit /\ [][ReadNext]_vars

RECURSIVE ReachIn(_, _)
\* the identities reachable from the set s in at most n further steps
ReachIn(s, n) ==
    IF n = 0 THEN s
    ELSE ReachIn(s \cup UNION {deps[x] : x \in s}, n - 1)

\* resolving a transitively requires resolving b
RequiresTransitively(a, b) == b \in ReachIn(deps[a], NumIds)
OnCycle(a) == RequiresTransitively(a, a)
ConflictPath == Returns(JoinSegs(<<PackagePrefix, ConflictResolution>>, <<"/">>))

\* C1 (as claimed): once the whole graph has been walked, any two identities
\* that transitively require each other are both marked cyclic and have the
\* conflictResolution path, and no identity off every reference cycle is
\* marked.
C1_AllCycleMembersRelocated ==
    WalkDone =>
        /\ \A a, b \in Ids :
             (RequiresTransitively(a, b) /\ RequiresTransitively(b, a)) =>
                 /\ IsCyclic(Ident(a)) /\ IsCyclic(Ident(b))
                 /\ PackagePath(Ident(a)) = ConflictPath
                 /\ PackagePath(Ident(b)) = ConflictPath
        /\ \A a \in Ids : ~OnCycle(a) => ~IsCyclic(Ident(a))

\* the half of C1 the walk does keep: only identities on a reference cycle
\* are ever marked
OnlyCycleMembersMarked ==
    \A a \in Ids : IsCyclic(Ident(a)) => OnCycle(a)

\* C7: marking is monotone and package paths follow it. For the value a
\* consumer read last: an identity that was marked when it was read is
\* still marked (marks are never removed); a read made while the identity
\* was marked returned the conflictResolution path and any other read the
\* namespace path (the path is computed from the cyclic set at the call,
\* never cached); and a value read after the graph was fully walked is what
\* PackagePath returns in every later state, the identity's final path.
C7_MarkingMonotone ==
    \A k \in 1..Len(lastRead) :
        LET r == lastRead[k]
        IN  /\ r.cyc => IsCyclic(Ident(r.id))
            /\ r.cyc => r.ret = ConflictPath
            /\ ~r.cyc => r.ret = Returns(<<"g", "/", "n", "/", Letters[r.id]>>)
            /\ r.settled => r.ret = PackagePath(Ident(r.id))

C7_Witness ==
    /\ WalkDone
    /\ Len(lastRead) = 1
    /\ lastRead[1].settled /\ lastRead[1].cyc
    /\ lastRead[1].ret = ConflictPath
    /\ \E n \in Ids : ~IsCyclic(Ident(n))

(***************************************************************************)
(* SpecDedup: DeduplicateFiles (codefile.go:239-276) called on a slice of  *)
(* code files.                                                             *)
(***************************************************************************)
MaxFiles == 3

\* the bytes of the characters that occur in keys
Ord(c) ==
    CASE c = "." -> 46
      [] c = "/" -> 47
      [] c = "_" -> 95
      [] c = "a" -> 97
      [] c = "b" -> 98
      [] c = "c" -> 99

\* a < b for Go strings: byte-wise lexicographic order
StrLess(a, b) ==
    \E k \in 1..(Len(a) + 1) :
        /\ k <= Len(b)
        /\ SubSeq(a, 1, k - 1) = SubSeq(b, 1, k - 1)
        /\ (k = Len(a) + 1 \/ Ord(a[k]) < Ord(b[k]))

RECURSIVE InsertSorted(_, _)
InsertSorted(sorted, x) ==
    IF sorted = <<>> THEN <<x>>
    ELSE IF StrLess(x, Head(sorted)) THEN <<x>> \o sorted
    ELSE <<Head(sorted)>> \o InsertSorted(Tail(sorted), x)

\* a mutant: the identifiers are left in map iteration order
SortStringsSkipped(ids) == ids

RECURSIVE SortStrings(_)
\* sort.Strings
SortStrings(ids) ==
    IF ids = <<>> THEN <<>>
    ELSE InsertSorted(SortStrings(Tail(ids)), Head(ids))

\* the statements a file may hold; two different statements may print the
\* same source text
Statements == {"s1", "s2", "s3"}

\* renderCode (codefile.go:242-248): the bytes Statement.Render writes
RenderCode(code) ==
    CASE code = "s1" -> <<"x">>
      [] code = "s2" -> <<"x">>
      [] code = "s3" -> <<"y">>

\* CodeFile.Identifier (codefile.go:92-94)
Identifier(f) == f.PackagePath \o <<".">> \o f.Filename

CodeFiles ==
    [SourceFilename : {<<"r">>},
     PackagePath : {<<"a">>, <<"a", ".", "b">>},
     Filename : {<<"c">>, <<"b", ".", "c">>},
     Code : Statements]

\* a mutant: the existing file's code is compared with itself
SameCodeComparesExisting(existingFile, file) ==
    RenderCode(existingFile.Code) = RenderCode(existingFile.Code)

\* a mutant: the statements are compared instead of their rendered bytes
SameCodeByStatement(existingFile, file) == existingFile.Code = file.Code

\* bytes.Equal(existingCode, code) (codefile.go:253-255)
SameCode(existingFile, file) ==
    RenderCode(existingFile.Code) = RenderCode(file.Code)

RECURSIVE DedupLoop(_, _, _)
\* the range loop (codefile.go:250-262) from index k on, with the map m;
\* log.Fatalf ends the process at the first conflict
DedupLoop(fs, k, m) ==
    IF k > Len(fs) THEN [fatal |-> FALSE, msg |-> <<>>, idToFile |-> m]
    ELSE LET file == fs[k]
             id == Identifier(file)
         IN  IF id \in DOMAIN m
             THEN IF ~SameCode(m[id], file)
                  THEN [fatal |-> TRUE,
                        msg |-> <<[id |-> id,
                                   existingCode |-> RenderCode(m[id].Code),
                                   code |-> RenderCode(file.Code)]>>,
                        idToFile |-> m]
                  ELSE DedupLoop(fs, k + 1, m)
             ELSE DedupLoop(fs, k + 1, (id :> file) @@ m)

\* the orders in which ranging over a map with these keys may yield them
MapOrders(keys) ==
    {o \in [1..Cardinality(keys) -> keys] :
        \A i, j \in 1..Cardinality(keys) : i # j => o[i] # o[j]}

\* DeduplicateFiles, with the map iteration order as a parameter
DeduplicateFilesIn(fs, mapOrder) ==
    LET loop == DedupLoop(fs, 1, <<>>)
        identifiers == SortStrings(mapOrder)
    IN  IF loop.fatal
        THEN [outcome |-> "fatal", msg |-> loop.msg, files |-> <<>>]
        ELSE [outcome |-> "returned", msg |-> <<>>,
              files |-> [k \in 1..Len(identifiers) |->
                             loop.idToFile[identifiers[k]]]]

DedupInit ==
    /\ files \in UNION {[1..n -> CodeFiles] : n \in 0..MaxFiles}
    /\ outcome = "called"
    /\ fatalMsg = <<>>
    /\ uniqueCodeFiles = <<>>
    /\ PackagePrefix = <<>> /\ cyclic = {}
    /\ PathIdle /\ RegIdle /\ ResIdle
    /\ PrimIdle /\ JsonIdle

DeduplicateFiles ==
    /\ outcome = "called"
    /\ \E mapOrder \in MapOrders(DOMAIN DedupLoop(files, 1, <<>>).idToFile) :
         LET r == DeduplicateFilesIn(files, mapOrder)
         IN  /\ outcome' = r.outcome
             /\ fatalMsg' = r.msg
             /\ uniqueCodeFiles' = r.files
    /\ UNCHANGED <<files, pathVars, regVars, resVars,
                   primVars, jsonVars>>

DedupNext == DeduplicateFiles

SpecDedup == DedupInit /\ [][DedupNext]_vars

FileIdx == 1..Len(files)
\* files i and j of the input have the same key and different rendered code
Conflicting(i, j) ==
    /\ i # j
    /\ Identifier(files[i]) = Identifier(files[j])
    /\ RenderCode(files[i].Code) # RenderCode(files[j].Code)
ConflictFree == \A i, j \in FileIdx : ~Conflicting(i, j)

\* C2: if two files of the input, wherever they stand, have the same key
\* and different rendered code, the call ends in log.Fatalf and returns no
\* list; the message names the key of a conflict and carries the full
\* rendered code of two input files with that key that differ.
C2_ConflictIsFatal ==
    (outcome # "called" /\ ~ConflictFree) =>
        /\ outcome = "fatal"
        /\ uniqueCodeFiles = <<>>
        /\ Len(fatalMsg) = 1
        /\ \E i, j \in FileIdx :
             /\ i < j /\ Conflicting(i, j)
             /\ fatalMsg[1].id = Identifier(files[i])
             /\ fatalMsg[1].existingCode = RenderCode(files[i].Code)
             /\ fatalMsg[1].code = RenderCode(files[j].Code)

C2_Witness ==
    /\ outcome = "fatal"
    /\ Len(files) = 3
    /\ ~Conflicting(1, 2) /\ Identifier(files[1]) # Identifier(files[2])
    /\ Conflicting(2, 3)
    /\ fatalMsg[1].id = <<"a", ".", "c">>
    /\ fatalMsg[1].existingCode = <<"y">> /\ fatalMsg[1].code = <<"x">>

OutIdx == 1..Len(uniqueCodeFiles)

\* C3: when all input files sharing a key render to the same code, the call
\* returns, the keys of the returned files are exactly the keys of the
\* input, each once, and each returned file renders as every input file
\* with its key does.
C3_OneFilePerKey ==
    (outcome # "called" /\ ConflictFree) =>
        /\ outcome = "returned"
        /\ {Identifier(uniqueCodeFiles[k]) : k \in OutIdx}
             = {Identifier(files[i]) : i \in FileIdx}
        /\ \A k, l \in OutIdx :
             Identifier(uniqueCodeFiles[k]) = Identifier(uniqueCodeFiles[l])
                 => k = l
        /\ \A k \in OutIdx : \A i \in FileIdx :
             Identifier(files[i]) = Identifier(uniqueCodeFiles[k]) =>
                 RenderCode(files[i].Code) = RenderCode(uniqueCodeFiles[k].Code)

C3_Witness ==
    /\ outcome = "returned"
    /\ Len(files) = 3 /\ Len(uniqueCodeFiles) = 2
    /\ Identifier(files[1]) = Identifier(files[3])
    /\ files[1].Code = "s1" /\ files[3].Code = "s2"
    /\ Identifier(files[2]) # Identifier(files[1])

\* the pair the deduplicator is specified to be keyed by
PairKey(f) == <<f.PackagePath, f.Filename>>

\* C4 (as claimed): the key is the pair (PackagePath, Filename). Files are
\* merged only when both fields agree, so a returned list has one file per
\* distinct pair of the input, and a fatal conflict is only ever reported
\* between files that agree in both fields.
C4_KeyedByPair ==
    /\ outcome = "returned" =>
         Len(uniqueCodeFiles) = Cardinality({PairKey(files[i]) : i \in FileIdx})
    /\ outcome = "fatal" =>
         \E i, j \in FileIdx :
             /\ PairKey(files[i]) = PairKey(files[j])
             /\ fatalMsg[1].existingCode = RenderCode(files[i].Code)
             /\ fatalMsg[1].code = RenderCode(files[j].Code)

Pairs(fs) == [k \in 1..Len(fs) |-> <<Identifier(fs[k]), RenderCode(fs[k].Code)>>]
Permuted(fs, p) == [k \in 1..Len(fs) |-> fs[p[k]]]

\* C5: the returned files are in strictly ascending byte order of key, and
\* calling DeduplicateFiles on any permutation of the same input, with any
\* map iteration order, gives the same outcome and the same sequence of
\* (key, rendered code) pairs.
C5_SortedAndReproducible ==
    outcome # "called" =>
        /\ \A k \in OutIdx \ {1} :
             StrLess(Identifier(uniqueCodeFiles[k - 1]),
                     Identifier(uniqueCodeFiles[k]))
        /\ \A p \in MapOrders(FileIdx) :
             LET fs == Permuted(files, p)
             IN  \A o \in MapOrders(DOMAIN DedupLoop(fs, 1, <<>>).idToFile) :
                   LET r == DeduplicateFilesIn(fs, o)
                   IN  /\ r.outcome = outcome
                       /\ Pairs(r.files) = Pairs(uniqueCodeFiles)

C5_Witness ==
    /\ outcome = "returned"
    /\ Len(files) = 3 /\ Len(uniqueCodeFiles) = 3
    /\ Identifier(files[1]) = <<"a", ".", "c">>
    /\ Identifier(files[2]) = <<"a", ".", "b", ".", "c">>
    /\ Identifier(files[3]) = <<"a", ".", "b", ".", "b", ".", "c">>
    /\ Identifier(uniqueCodeFiles[1]) = Identifier(files[3])
    /\ Identifier(uniqueCodeFiles[3]) = Identifier(files[1])

(***************************************************************************)
(* SpecResource: ResourceParser.parse (codefile.go:480-523) walks a tree   *)
(* of resource schemas; Collection.generateGet (collection.go:8-50) then   *)
(* builds the get request of an emitted collection.                        *)
(***************************************************************************)
NumSchemas == 4

Schemas == 1..NumSchemas
\* "complexKey" is a collection whose identifier has params
Kinds == {"actionsSet", "simple", "collection", "complexKey"}
SchemaName(n) == <<Letters[n]>>
SchemaNamespace == <<"n">>

\* schema 1 is the root; every other schema is a sub-resource of an earlier
\* one that has an entity (a simple or collection resource)
Trees ==
    {t \in [kind : [Schemas -> Kinds], parent : [Schemas -> 0..(NumSchemas - 1)]] :
        /\ t.parent[1] = 0
        /\ \A n \in Schemas \ {1} :
             /\ t.parent[n] \in 1..(n - 1)
             /\ t.kind[t.parent[n]] # "actionsSet"}

\* getSubresources(), in list order
Subresources(n) ==
    LET all == {c \in Schemas : tree.parent[c] = n}
    IN  SelectSeq([c \in Schemas |-> c], LAMBDA c : c \in all)

HasCollection(n) == tree.kind[n] \in {"collection", "complexKey"}
IdentifierHasParams(n) == tree.kind[n] = "complexKey"
\* PathKey.forCollection
PathKeyForCollection(n) == [name |-> SchemaName(n) \o <<"I", "d">>]

\* the private constructor (codefile.go:459-468)
NewParser(schema, namespaceChain, pathKeys) ==
    [schema |-> schema,
     namespaceChain |-> Append(namespaceChain, SchemaName(schema)),
     pathKeys |-> pathKeys]

\* ResourceParser(parent, subResource, pathKey) (codefile.go:470-473);
\* pathKey is <<>> for null
SubParser(parent, subResource, pathKey) ==
    NewParser(subResource, parent.namespaceChain,
              IF pathKey = <<>> THEN parent.pathKeys
              ELSE Append(parent.pathKeys, pathKey[1]))

\* the public constructor (codefile.go:475-478)
RootParser(schema) == NewParser(schema, <<SchemaNamespace>>, <<>>)

\* newResource (codefile.go:525-535), with the path keys its methods get
NewResource(this) ==
    [name |-> JoinSegs(this.namespaceChain, <<".">>),
     schema |-> this.schema,
     namespaceChain |-> this.namespaceChain,
     pathKeys |-> this.pathKeys]

Reverse(q) == [k \in 1..Len(q) |-> q[Len(q) + 1 - k]]

\* a mutant: the test asks for params on the identifier of a resource that
\* is not a collection, which never holds
SkipsSubtreeWrongKind(this) ==
    ~HasCollection(this.schema) /\ IdentifierHasParams(this.schema)

\* the test of codefile.go:481: parse() returns the empty set at once
SkipsSubtree(this) ==
    HasCollection(this.schema) /\ IdentifierHasParams(this.schema)

\* the ResourceParsers parse() creates for the sub-resources, in list order
\* (codefile.go:501-503 and 516-519)
SubParsers(this) ==
    LET subs == Subresources(this.schema)
    IN  IF tree.kind[this.schema] = "simple"
        THEN [k \in 1..Len(subs) |-> SubParser(this, subs[k], <<>>)]
        ELSE IF HasCollection(this.schema)
             THEN [k \in 1..Len(subs) |->
                       SubParser(this, subs[k],
                                 <<PathKeyForCollection(this.schema)>>)]
             ELSE <<>>

ResInit ==
    /\ tree \in Trees
    /\ frames = <<RootParser(1)>>
    /\ emitted = {}
    /\ logged = {}
    /\ lastGet = <<>>
    /\ PackagePrefix = <<>> /\ cyclic = {}
    /\ PathIdle /\ RegIdle /\ DedupIdle
    /\ PrimIdle /\ JsonIdle

\* one call of parse(): the pending parser on top runs up to its recursive
\* calls, which become pending in list order
Parse ==
    /\ frames # <<>>
    /\ LET this == frames[Len(frames)]
           rest == SubSeq(frames, 1, Len(frames) - 1)
       IN  IF SkipsSubtree(this)
           THEN /\ logged' = logged \cup {this.namespaceChain}
                /\ frames' = rest
                /\ UNCHANGED emitted
           ELSE /\ emitted' = emitted \cup {NewResource(this)}
                /\ frames' = rest \o Reverse(SubParsers(this))
                /\ UNCHANGED logged
    /\ UNCHANGED <<tree, lastGet, pathVars, regVars, dedupVars,
                   primVars, jsonVars>>

ParseDone == frames = <<>>

\* ---- the Go side: schema.Resource values for the emitted resources ----
Lit(name) == [seg |-> "lit", name |-> name]
Key(name) == [seg |-> "key", name |-> name]
Verb == [seg |-> "verb", name |-> <<"%", "s">>]

\* Resource.getIdentifier: the entity identifier of a collection, <<>> (nil)
\* for any other resource
GetIdentifier(r) ==
    IF tree.kind[r] = "collection"
    THEN <<[Name |-> PathKeyForCollection(r).name]>>
    ELSE <<>>

RECURSIVE AncestorsOf(_)
\* the ancestors of schema n, outermost first
AncestorsOf(n) ==
    IF tree.parent[n] = 0 THEN <<>>
    ELSE Append(AncestorsOf(tree.parent[n]), tree.parent[n])

RECURSIVE PathOfChain(_)
PathOfChain(chain) ==
    IF chain = <<>> THEN <<>>
    ELSE LET r == Head(chain)
         IN  <<Lit(SchemaName(r))>>
               \o (IF GetIdentifier(r) # <<>>
                   THEN <<Key(GetIdentifier(r)[1].Name)>> ELSE <<>>)
               \o PathOfChain(Tail(chain))

\* Resource.Path: the restspec path of the resource, "/a/{aId}/b" for a
\* sub-resource b of collection a
ResourcePath(r) == PathOfChain(AncestorsOf(r)) \o <<Lit(SchemaName(r))>>

\* strings.Replace(path, "{name}", "%s", 1)
ReplaceFirstKey(path, name) ==
    IF \A k \in 1..Len(path) : path[k] # Key(name) THEN path
    ELSE LET k == CHOOSE i \in 1..Len(path) :
                      path[i] = Key(name) /\ \A j \in 1..(i - 1) : path[j] # Key(name)
         IN  [path EXCEPT ![k] = Verb]

RECURSIVE BuildQueryPath(_, _)
\* buildQueryPath: the placeholder of every keyed resource becomes %s
BuildQueryPath(resources, rawQueryPath) ==
    IF resources = <<>> THEN rawQueryPath
    ELSE LET id == GetIdentifier(Head(resources))
         IN  BuildQueryPath(Tail(resources),
                            IF id # <<>> THEN ReplaceFirstKey(rawQueryPath, id[1].Name)
                            ELSE rawQueryPath)

\* collection.go:9-11
AllResources(parentResources, thisResource) ==
    parentResources \o <<thisResource>>

\* a mutant: the "/%s" of the resource's own identifier is not appended
GetQueryPathNoOwnVerb(parentResources, thisResource) ==
    BuildQueryPath(AllResources(parentResources, thisResource),
                   ResourcePath(thisResource))

\* collection.go:13-14
GetQueryPath(parentResources, thisResource) ==
    BuildQueryPath(AllResources(parentResources, thisResource),
                   ResourcePath(thisResource)) \o <<Verb>>

RECURSIVE SprintfArgs(_)
\* collection.go:34-38: one argument per resource that has an identifier
SprintfArgs(resources) ==
    IF resources = <<>> THEN <<>>
    ELSE LET id == GetIdentifier(Head(resources))
         IN  (IF id # <<>> THEN <<id[1].Name \o <<"S", "t", "r">>>> ELSE <<>>)
               \o SprintfArgs(Tail(resources))

SchemaNamed(name) == CHOOSE n \in Schemas : SchemaName(n) = name

\* generateGet for an emitted collection, once parsing has finished; its
\* parentResources are the resources named by the namespace chain
GenerateGet(r) ==
    /\ ParseDone
    /\ r \in emitted
    /\ tree.kind[r.schema] = "collection"
    /\ LET chain == r.namespaceChain
           parentResources == [k \in 1..(Len(chain) - 2) |-> SchemaNamed(chain[k + 1])]
       IN  lastGet' = <<[resource |-> r.schema,
                         parentResources |-> parentResources,
                         queryPath |-> GetQueryPath(parentResources, r.schema),
                         args |-> SprintfArgs(AllResources(parentResources, r.schema))]>>
    /\ UNCHANGED <<tree, frames, emitted, logged, pathVars, regVars, dedupVars,
                   primVars, jsonVars>>

ResNext ==
    \/ Parse
    \/ \E r \in emitted : GenerateGet(r)

SpecResource == ResInit /\ [][ResNext]_vars

ComplexKey(n) == tree.kind[n] = "complexKey"
Range(q) == {q[k] : k \in 1..Len(q)}
\* n or one of its ancestors has a complex key
UnderComplexKey(n) == \E a \in Range(AncestorsOf(n)) \cup {n} : ComplexKey(a)
EmittedSchemas == {r.schema : r \in emitted}
ChainOf(n) ==
    <<SchemaNamespace>> \o [k \in 1..(Len(AncestorsOf(n)) + 1) |->
                               SchemaName(Append(AncestorsOf(n), n)[k])]

\* C8: no resource with a complex key and no descendant of one, at any
\* depth, is ever emitted; and the walk still runs to its end: once parsing
\* has finished, every other resource has been emitted (the parent and the
\* siblings of a skipped resource among them) and every complex-key
\* resource that has no complex-key ancestor has been reported.
C8_ComplexKeySubtreeSkipped ==
    /\ \A n \in EmittedSchemas : ~UnderComplexKey(n)
    /\ ParseDone =>
         /\ EmittedSchemas = {n \in Schemas : ~UnderComplexKey(n)}
         /\ logged = {ChainOf(n) : n \in
                        {c \in Schemas : /\ ComplexKey(c)
                                         /\ \A a \in Range(AncestorsOf(c)) :
                                              ~ComplexKey(a)}}

\* a collection with a sibling that has a complex key and a grandchild
C8_Witness ==
    /\ ParseDone
    /\ tree.kind = <<"collection", "complexKey", "simple", "collection">>
    /\ tree.parent = <<0, 1, 2, 1>>
    /\ EmittedSchemas = {1, 4}
    /\ logged = {<<<<"n">>, <<"a">>, <<"b">>>>}

Keyed(n) == tree.kind[n] = "collection"
NumVerbs(path) == Len(SelectSeq(path, LAMBDA x : x = Verb))

RECURSIVE ExpectedTemplate(_)
\* one literal segment per resource of the chain, followed by one %s when
\* the resource is a keyed collection
ExpectedTemplate(chain) ==
    IF chain = <<>> THEN <<>>
    ELSE <<Lit(SchemaName(Head(chain)))>>
           \o (IF Keyed(Head(chain)) THEN <<Verb>> ELSE <<>>)
           \o ExpectedTemplate(Tail(chain))

\* C9: the get of a collection with any ancestor chain has, in its path,
\* one %s after the segment of every keyed collection of the chain
\* (ancestors, then the resource itself) and none after a simple ancestor;
\* its identifier arguments are those collections' identifiers, outermost
\* first, the resource's own last; there are as many %s as arguments. And
\* every emitted resource was handed the keys of its keyed ancestors,
\* outermost first: its parent's keys, plus one exactly when the parent is
\* a collection.
C9_GetPathAndKeys ==
    /\ \A k \in 1..Len(lastGet) :
         LET g == lastGet[k]
             chain == Append(AncestorsOf(g.resource), g.resource)
             keyed == SelectSeq(chain, Keyed)
         IN  /\ g.parentResources = AncestorsOf(g.resource)
             /\ g.queryPath = ExpectedTemplate(chain)
             /\ NumVerbs(g.queryPath) = Len(keyed)
             /\ g.args = [j \in 1..Len(keyed) |->
                              SchemaName(keyed[j]) \o <<"I", "d", "S", "t", "r">>]
             /\ NumVerbs(g.queryPath) = Len(g.args)
    /\ \A r \in emitted :
         LET keyed == SelectSeq(AncestorsOf(r.schema), Keyed)
         IN  /\ r.pathKeys = [j \in 1..Len(keyed) |->
                                  [name |-> SchemaName(keyed[j]) \o <<"I", "d">>]]
             /\ \A p \in emitted :
                  p.schema = tree.parent[r.schema] =>
                      r.pathKeys = IF Keyed(p.schema)
                                   THEN Append(p.pathKeys, PathKeyForCollection(p.schema))
                                   ELSE p.pathKeys

\* a/{aId}/b/c/{cId}/d/{dId}: collection, simple, collection, collection
C9_Witness ==
    /\ tree.kind = <<"collection", "simple", "collection", "collection">>
    /\ tree.parent = <<0, 1, 2, 3>>
    /\ Len(lastGet) = 1
    /\ lastGet[1].resource = 4
    /\ lastGet[1].queryPath =
         <<Lit(<<"a">>), Verb, Lit(<<"b">>), Lit(<<"c">>), Verb, Lit(<<"d">>), Verb>>
    /\ lastGet[1].args = << <<"a", "I", "d", "S", "t", "r">>,
                            <<"c", "I", "d", "S", "t", "r">>,
                            <<"d", "I", "d", "S", "t", "r">> >>

(***************************************************************************)
(* PrimitiveType.UnmarshalJSON (identifier.go)                             *)
(***************************************************************************)
Quote == <<"\"">>
Int32Name == <<"i", "n", "t", "3", "2">>
Int64Name == <<"i", "n", "t", "6", "4">>
Float32Name == <<"f", "l", "o", "a", "t", "3", "2">>
Float64Name == <<"f", "l", "o", "a", "t", "6", "4">>
BoolName == <<"b", "o", "o", "l">>
StringName == <<"s", "t", "r", "i", "n", "g">>
BytesName == <<"b", "y", "t", "e", "s">>
NullLiteral == <<"n", "u", "l", "l">>

\* the catalog, in declaration order; newInstance is the Go type it allocates
PrimitiveTypes ==
    << [Type |-> Int32Name, newInstance |-> "int32"],
       [Type |-> Int64Name, newInstance |-> "int64"],
       [Type |-> Float32Name, newInstance |-> "float32"],
       [Type |-> Float64Name, newInstance |-> "float64"],
       [Type |-> BoolName, newInstance |-> "bool"],
       [Type |-> StringName, newInstance |-> "string"],
       [Type |-> BytesName, newInstance |-> "[]byte"] >>

\* the zero PrimitiveType
ZeroPrimitive == [Type |-> <<>>, newInstance |-> "nil"]

\* json.Unmarshal(data, &primitiveType) with primitiveType a fresh string:
\* a string literal is unquoted, null leaves the string empty, every other
\* value is a type error and every other text a syntax error
IsStringLiteral(d) ==
    /\ Len(d) >= 2
    /\ d[1] = "\"" /\ d[Len(d)] = "\""
    /\ \A k \in 2..(Len(d) - 1) : d[k] \notin {"\"", "\\"}
IsNumberLiteral(d) ==
    /\ Len(d) >= 1
    /\ d[1] \in {"1", "2", "3", "4", "6"}
    /\ \A k \in 1..Len(d) : d[k] \in {"1", "2", "3", "4", "6"}
UnmarshalString(d) ==
    IF IsStringLiteral(d)
    THEN [err |-> "nil", val |-> SubSeq(d, 2, Len(d) - 1)]
    ELSE IF d = NullLiteral THEN [err |-> "nil", val |-> <<>>]
    ELSE IF IsNumberLiteral(d) THEN [err |-> "UnmarshalTypeError", val |-> <<>>]
    ELSE [err |-> "SyntaxError", val |-> <<>>]

\* a comparison that also accepts a name the catalog name is a prefix of
SamePrimitiveNamePrefix(primitiveType, ptType) ==
    HasPrefixAt(primitiveType, 1, ptType)

\* primitiveType == pt.Type
SamePrimitiveName(primitiveType, ptType) == primitiveType = ptType

\* the indexes of the catalog entries the loop's comparison accepts
Matching(primitiveType) ==
    {k \in 1..Len(PrimitiveTypes) :
        SamePrimitiveName(primitiveType, PrimitiveTypes[k].Type)}

\* (*p).UnmarshalJSON(d): the error returned and the value *p holds after
UnmarshalJSON(p, d) ==
    LET u == UnmarshalString(d)
        m == Matching(u.val)
    IN  IF u.err # "nil" THEN [err |-> u.err, p |-> p]
        ELSE IF m # {}
        THEN [err |-> "nil",
              p |-> PrimitiveTypes[CHOOSE k \in m : \A j \in m : k <= j]]
        ELSE [err |-> "Unknown type", p |-> p]

(***************************************************************************)
(* SpecPrimitive: a schema decoder calls UnmarshalJSON on one PrimitiveType *)
(* value, again and again, with type names taken from schema files.        *)
(***************************************************************************)
CatalogNames ==
    {Int32Name, Int64Name, Float32Name, Float64Name,
     BoolName, StringName, BytesName}
OtherNames ==
    {<<>>, <<"i", "n", "t">>, Int32Name \o <<"2">>, <<"I">> \o Drop(Int32Name, 2),
     <<"l", "o", "n", "g">>, BoolName \o <<"e", "a", "n">>,
     <<"b", "y", "t", "e">>, StringName \o <<"s">>, NullLiteral}
PrimInputs ==
    {Quote \o n \o Quote : n \in CatalogNames \cup OtherNames}
    \cup CatalogNames
    \cup {NullLiteral, <<"3", "2">>, Quote \o Int32Name, Int64Name \o Quote}

PrimInit ==
    /\ prim = ZeroPrimitive
    /\ primCall = <<>>
    /\ PackagePrefix = <<>> /\ cyclic = {}
    /\ PathIdle /\ RegIdle /\ DedupIdle /\ ResIdle /\ JsonIdle

\* the decoder meets the text d where a primitive type name is expected
CallUnmarshalJSON(d) ==
    LET r == UnmarshalJSON(prim, d)
    IN  /\ prim' = r.p
        /\ primCall' = [data |-> d, before |-> prim, err |-> r.err]
        /\ UNCHANGED <<pathVars, regVars, dedupVars, resVars, jsonVars>>

PrimNext == \E d \in PrimInputs : CallUnmarshalJSON(d)

SpecPrimitive == PrimInit /\ [][PrimNext]_vars

\* the catalog entry named n, by the claim's list of names
CatalogEntry(n) ==
    CHOOSE e \in {PrimitiveTypes[k] : k \in 1..Len(PrimitiveTypes)} : e.Type = n

\* C11: the catalog is closed. A call decoding the name n succeeds exactly
\* when n is one of int32, int64, float32, float64, bool, string, bytes, and
\* then the target is that catalog entry; on every other input the call
\* returns an error and the target is what it was before the call.
C11_CatalogClosed ==
    primCall # <<>> =>
        LET named == {n \in CatalogNames : primCall.data = Quote \o n \o Quote}
        IN  /\ (primCall.err = "nil") <=> (named # {})
            /\ \A n \in named : prim = CatalogEntry(n) /\ prim.Type = n
            /\ named = {} => prim = primCall.before

\* an unknown name was decoded after a catalog name: the call failed and the
\* target still holds the earlier entry
C11_Witness ==
    /\ primCall # <<>>
    /\ primCall.data = Quote \o Int32Name \o <<"2">> \o Quote
    /\ primCall.err = "Unknown type"
    /\ primCall.before = PrimitiveTypes[7]
    /\ prim = PrimitiveTypes[7]

(***************************************************************************)
(* ReadJSONFromFile (codefile.go): json.Unmarshal is retried after the     *)
(* comment at the reported syntax error has been cut out of the data.      *)
(* The texts are arrays, numbers and strings over a small byte alphabet.   *)
(***************************************************************************)
MaxBytes == 6

JsonBytes == {"[", "]", "1", "/", "*", "\n", "\""}

\* the file contents: every text of at most MaxBytes bytes
Texts == UNION {[1..n -> JsonBytes] : n \in 0..MaxBytes}

NoSyntaxError == [syntax |-> FALSE, Offset |-> 0]
SyntaxErrorAt(n) == [syntax |-> TRUE, Offset |-> n]

\* encoding/json's scanner from byte i on: step is the scanner's state
\* function, depth the number of arrays open. The error carries the count of
\* bytes consumed, the offending byte included; at the end of the input the
\* value must be complete.
RECURSIVE CheckValidFrom(_, _, _, _)
CheckValidFrom(d, i, step, depth) ==
    IF i > Len(d)
    THEN IF step = "endTop" \/ (step \in {"num", "endValue"} /\ depth = 0)
         THEN NoSyntaxError
         ELSE SyntaxErrorAt(Len(d))
    ELSE
    LET c == d[i]
        \* the state function that really handles c
        at == IF step = "beginValueOrEmpty" /\ c \notin {"\n", "]"}
              THEN "beginValue"
              ELSE IF step = "beginValueOrEmpty" /\ c = "]" THEN "endValue"
              ELSE IF step = "num" /\ c # "1" THEN "endValue"
              ELSE step
        top == at = "endTop" \/ (at = "endValue" /\ depth = 0)
    IN  IF top
        THEN IF c = "\n" THEN CheckValidFrom(d, i + 1, "endTop", 0)
             ELSE SyntaxErrorAt(i)
        ELSE IF at = "inString"
        THEN IF c = "\"" THEN CheckValidFrom(d, i + 1, "endValue", depth)
             ELSE IF c = "\n" THEN SyntaxErrorAt(i)
             ELSE CheckValidFrom(d, i + 1, "inString", depth)
        ELSE IF at = "num"
        THEN CheckValidFrom(d, i + 1, "num", depth)
        ELSE IF at = "endValue"
        THEN IF c = "\n" THEN CheckValidFrom(d, i + 1, "endValue", depth)
             ELSE IF c = "," THEN CheckValidFrom(d, i + 1, "beginValue", depth)
             ELSE IF c = "]"
             THEN CheckValidFrom(d, i + 1,
                     IF depth = 1 THEN "endTop" ELSE "endValue", depth - 1)
             ELSE SyntaxErrorAt(i)
        ELSE \* beginValue, or beginValueOrEmpty skipping white space
             IF c = "\n" THEN CheckValidFrom(d, i + 1, step, depth)
             ELSE IF c = "[" 
             THEN CheckValidFrom(d, i + 1, "beginValueOrEmpty", depth + 1)
             ELSE IF c = "\"" THEN CheckValidFrom(d, i + 1, "inString", depth)
             ELSE IF c = "1" THEN CheckValidFrom(d, i + 1, "num", depth)
             ELSE SyntaxErrorAt(i)

\* the syntax check json.Unmarshal(data, s) makes before it decodes
CheckValid(d) == CheckValidFrom(d, 1, "beginValue", 0)

\* bytes.Index(s, sep): the 0-based index of the first sep in s, or -1
Index(s, sep) ==
    LET at == {k \in 0..Len(s) : HasPrefixAt(s, k + 1, sep)}
    IN  IF at = {} THEN -1 ELSE CHOOSE k \in at : \A j \in at : k <= j

\* one pass of the for loop over the data d; typeOk says whether the target
\* s accepts the decoded value. The indexes are the code's, 0-based: the
\* byte data[k] is d[k + 1].
LoopBody(d, typeOk) ==
    LET e == CheckValid(d)
        offset == e.Offset - 1
        endOfComment == IF d[offset + 2] = "/" THEN <<"\n">> ELSE <<"*", "/">>
        eol == Index(Drop(d, offset + 1), endOfComment)
    IN  IF ~e.syntax
        THEN [state |-> IF typeOk THEN "ok" ELSE "UnmarshalTypeError",
              data |-> d, cut |-> <<>>]
        ELSE IF e.Offset = 0
        THEN [state |-> "SyntaxError", data |-> d, cut |-> <<>>]
        ELSE IF d[offset + 1] # "/"
        THEN [state |-> "SyntaxError", data |-> d, cut |-> <<>>]
        ELSE IF offset + 2 > Len(d)
        THEN [state |-> "panic", data |-> d, cut |-> <<>>]
        ELSE IF d[offset + 2] \notin {"/", "*"}
        THEN [state |-> "MalformedPdscFileError", data |-> d, cut |-> <<>>]
        ELSE IF eol = -1
        THEN [state |-> "MalformedPdscFileError", data |-> d, cut |-> <<>>]
        ELSE [state |-> "loop",
              data |-> SubSeq(d, 1, offset)
                       \o Drop(d, offset + eol + Len(endOfComment) + 1),
              cut |-> [before |-> d, offset |-> offset,
                       length |-> eol + Len(endOfComment)]]

(***************************************************************************)
(* SpecJson: one call of ReadJSONFromFile on a file holding any text.      *)
(***************************************************************************)
JsonInit ==
    /\ data \in Texts
    /\ readState = "start"
    /\ cut = <<>>
    /\ PackagePrefix = <<>> /\ cyclic = {}
    /\ PathIdle /\ RegIdle /\ DedupIdle /\ ResIdle /\ PrimIdle

\* ioutil.ReadFile(filename) returns the content or an error
ReadFile ==
    /\ readState = "start"
    /\ readState' \in {"loop", "ReadFileError"}
    /\ UNCHANGED <<data, cut, pathVars, regVars, dedupVars, resVars, primVars>>

\* one pass of the parse loop: return, panic, or cut a comment and go round
ParseAttempt ==
    /\ readState = "loop"
    /\ \E typeOk \in BOOLEAN :
        LET r == LoopBody(data, typeOk)
        IN  /\ readState' = r.state
            /\ data' = r.data
            /\ cut' = IF r.state = "loop" THEN r.cut ELSE cut
    /\ UNCHANGED <<pathVars, regVars, dedupVars, resVars, primVars>>

JsonNext == ReadFile \/ ParseAttempt

SpecJson == JsonInit /\ [][JsonNext]_vars

Returned ==
    {"ok", "ReadFileError", "SyntaxError", "UnmarshalTypeError",
     "MalformedPdscFileError"}

\* the last cut removed a "//" or "/*" comment that starts at the error
\* offset, and kept every other byte in place and in order
CutIsComment ==
    cut # <<>> =>
        LET b == cut.before
            o == cut.offset
        IN  /\ CheckValid(b) = SyntaxErrorAt(o + 1)
            /\ cut.length >= 2 /\ o + cut.length <= Len(b)
            /\ b[o + 1] = "/" /\ b[o + 2] \in {"/", "*"}
            /\ (readState = "loop" =>
                   /\ Len(data) = Len(b) - cut.length
                   /\ \A k \in 1..Len(data) :
                         data[k] = IF k <= o THEN b[k] ELSE b[k + cut.length])

\* C12: ReadJSONFromFile ends every call by returning success or an error:
\* it never stops in any other way, and each retry follows the removal of a
\* comment at the error offset that shortens the data and keeps the rest.
C12_AlwaysReturns ==
    /\ readState \in {"start", "loop"} \cup Returned
    /\ CutIsComment

\* the errors the loop returns at once are returned with the data untouched:
\* offset 0, a byte other than '/', '/' before a byte other than '/' or '*',
\* and a comment without its end
ErrorsDoNotRetry ==
    [][(/\ readState = "loop"
        /\ LET e == CheckValid(data)
               o == e.Offset
           IN  /\ e.syntax
               /\ \/ o = 0
                  \/ data[o] # "/"
                  \/ (o < Len(data) /\ data[o + 1] \notin {"/", "*"})
                  \/ (o < Len(data) /\ data[o + 1] = "/"
                      /\ Index(Drop(data, o), <<"\n">>) = -1)
                  \/ (o < Len(data) /\ data[o + 1] = "*"
                      /\ Index(Drop(data, o), <<"*", "/">>) = -1))
       => (readState' \in Returned \ {"ok"} /\ data' = data)]_vars

\* every retry makes the data shorter
RetriesShorten ==
    [][(readState = "loop" /\ readState' = "loop") => Len(data') < Len(data)]_vars

(***************************************************************************)
(* The escaping of `internal` namespace segments (identifier.go), under    *)
(* SpecPath: the calls on identities that are not cyclic return            *)
(* FqcpToPackagePath of the namespace.                                     *)
(***************************************************************************)
\* the calls that returned FqcpToPackagePath(Namespace)
NamespaceCalls ==
    {k \in 1..Len(calls) : ~calls[k].ret.panicked /\ ~calls[k].cyc}

\* the path segments call k derived from its namespace, one per segment
DerivedSegs(k) ==
    LET ps == Split(calls[k].ret.path, "/")
    IN  SubSeq(ps, Len(PrefixSegs) + 1, Len(ps))

\* no derived segment is exactly `internal`
NoInternalSegment ==
    \A k \in NamespaceCalls :
        \A j \in 1..Len(DerivedSegs(k)) : DerivedSegs(k)[j] # Internal

\* every namespace segment `internal` comes out as `_internal`
InternalIsEscaped ==
    \A k \in NamespaceCalls :
        LET ns == Split(calls[k].id.Namespace, ".")
        IN  /\ Len(DerivedSegs(k)) = Len(ns)
            /\ \A j \in 1..Len(ns) :
                  ns[j] = Internal => DerivedSegs(k)[j] = UnderscoreInternal

\* escaping an escaped namespace changes nothing
EscapeIdempotent ==
    \A k \in NamespaceCalls :
        LET once == NamespaceEscape(calls[k].id.Namespace)
        IN  NamespaceEscape(once) = once

\* C13: no path segment FqcpToPackagePath derives from a namespace is
\* exactly `internal`: every namespace segment equal to `internal`, wherever
\* it stands, is emitted as `_internal`, and escaping an already escaped
\* namespace changes nothing.
C13_InternalAlwaysEscaped ==
    /\ NoInternalSegment
    /\ InternalIsEscaped
    /\ EscapeIdempotent

====
